---- MODULE Spec2Model ----
(***************************************************************************)
(* Model of custom_components/anker_solix/config_flow.py: the setup wizard *)
(* (AnkerSolixFlowHandler), the options editor                             *)
(* (AnkerSolixOptionsFlowHandler) and the device reconciliation routine    *)
(* async_check_and_remove_devices.                                         *)
(***************************************************************************)
EXTENDS Integers, Sequences, FiniteSets, TLC

VARIABLES
    entries,    \* hass.config_entries.async_entries(DOMAIN): list of entries
    devices,    \* the device registry, in registry order
    devCtr,     \* last device id handed out by the registry
    flow,       \* per wizard flow: the handler object and its last result
    editor,     \* the options editor: number of submissions and last result
    subs,       \* form submissions the wizard flows have handled so far
    rc          \* one stand-alone call of async_check_and_remove_devices

vars == <<entries, devices, devCtr, flow, editor, subs, rc>>

(***************************************************************************)
(* Bounds of the model.                                                    *)
(***************************************************************************)
MaxSubmits == 4     \* form submissions handled by the wizard flows together
MaxEdits == 2       \* submissions handled by the options editor
MaxDevs == 3        \* devices in the registry of a stand-alone call
MaxEntries == 2     \* entries in the entry list of a stand-alone call
MaxRuns == 3        \* runs of a repeated stand-alone call

Flows == {"f1", "f2"}

(***************************************************************************)
(* Values.  NONE stands for Python's None where a string is expected.      *)
(***************************************************************************)
NONE == "<none>"
ABSENT == "<absent>"

Usernames == {"", "a", "A", "b"}

\* str.lower() on the user names of the model
Lower(u) == IF u = "A" THEN "a" ELSE IF u = "B" THEN "b" ELSE u

Serials == {"s1", "s2", "s3"}

\* SolixDeviceType values and ApiCategories used by the expansion
SYSTEM == "system"
SOLARBANK == "solarbank"
INVERTER == "inverter"
PPS == "pps"
POWERPANEL == "powerpanel"
site_price == "site_price"
solarbank_energy == "solarbank_energy"
solarbank_cutoff == "solarbank_cutoff"
solarbank_fittings == "solarbank_fittings"
solarbank_solar_info == "solarbank_solar_info"
device_auto_upgrade == "device_auto_upgrade"

DeviceTypes == {SYSTEM, SOLARBANK, INVERTER, PPS, POWERPANEL}

Categories ==
    DeviceTypes \cup {site_price, solarbank_energy, solarbank_cutoff,
                      solarbank_fittings, solarbank_solar_info,
                      device_auto_upgrade}

(***************************************************************************)
(* async_check_and_remove_devices, lines 355-384: the expansion of the     *)
(* exclusion set.  An empty set stands for both None and set(): each is    *)
(* falsy at line 357 and at line 401.                                      *)
(***************************************************************************)
SystemSubcategories == {site_price, SOLARBANK, INVERTER, PPS, POWERPANEL}

SolarbankSubcategories ==
    {solarbank_energy, solarbank_cutoff, solarbank_fittings,
     solarbank_solar_info}

DeviceSubcategories == {device_auto_upgrade}

ExpandSystem(excluded) ==
    IF SystemSubcategories \cap excluded # {}
    THEN excluded \cup {SYSTEM} ELSE excluded

\* the solarbank rule with one of its four tags left out
ExpandSolarbankPartial(excluded) ==
    IF (SolarbankSubcategories \ {solarbank_solar_info}) \cap excluded # {}
    THEN excluded \cup {SOLARBANK} ELSE excluded

ExpandSolarbank(excluded) ==
    IF SolarbankSubcategories \cap excluded # {}
    THEN excluded \cup {SOLARBANK} ELSE excluded

\* the auto-upgrade rule with the powerpanel type left out
ExpandDevicesPartial(excluded) ==
    IF DeviceSubcategories \cap excluded # {}
    THEN excluded \cup {SOLARBANK, INVERTER, PPS} ELSE excluded

ExpandDevices(excluded) ==
    IF DeviceSubcategories \cap excluded # {}
    THEN excluded \cup {SOLARBANK, INVERTER, PPS, POWERPANEL} ELSE excluded

ExpandExcluded(excluded) ==
    IF excluded # {}
    THEN ExpandDevices(ExpandSolarbank(ExpandSystem(excluded)))
    ELSE excluded

(***************************************************************************)
(* async_check_and_remove_devices, lines 386-405: the scan.                *)
(* apidata is a function Serials -> type, ABSENT where the key is missing. *)
(***************************************************************************)
InApidata(serial, apidata) == apidata[serial] # ABSENT

\* dr.async_entries_for_config_entry: the devices of one entry, registry order
DevicesOf(devs, entry_id) == SelectSeq(devs, LAMBDA d : d.entry = entry_id)

RECURSIVE ScanOrder(_, _)
\* the (entry, device) pairs in the order the two nested loops visit them
ScanOrder(cfg_entries, devs) ==
    IF cfg_entries = <<>> THEN <<>>
    ELSE LET cfg_entry == Head(cfg_entries)
             mine == DevicesOf(devs, cfg_entry.entry_id)
         IN [i \in 1..Len(mine) |-> [cfg_entry |-> cfg_entry, dev_entry |-> mine[i]]]
            \o ScanOrder(Tail(cfg_entries), devs)

\* line 393-395: the device belongs to the entry of another account
OtherAccount(username, cfg_entry) ==
    Lower(username) # "" /\ Lower(username) # cfg_entry.unique_id

\* lines 400-404: a device of the same account that is to be removed
IsObsolete(dev_entry, apidata, excluded) ==
    \/ ~InApidata(dev_entry.serial_number, apidata)
    \/ (excluded # {} /\ {apidata[dev_entry.serial_number]} \ excluded = {})

\* the newest key is put first
DictPutFirst(obsolete, dev_entry) ==
    IF \E i \in 1..Len(obsolete) : obsolete[i].id = dev_entry.id
    THEN obsolete
    ELSE <<[id |-> dev_entry.id, serial |-> dev_entry.serial_number]>> \o obsolete

\* obsolete_user_devs[dev_entry.id] = serial: a dict keeps the first position
DictPut(obsolete, dev_entry) ==
    IF \E i \in 1..Len(obsolete) : obsolete[i].id = dev_entry.id
    THEN obsolete
    ELSE Append(obsolete, [id |-> dev_entry.id, serial |-> dev_entry.serial_number])

RECURSIVE ScanFrom(_, _, _, _, _, _)
\* the loops of lines 388-405 from position i of the scan order on
ScanFrom(order, i, username, apidata, excluded, obsolete) ==
    IF i > Len(order)
    THEN [conflict |-> 0, obsolete |-> obsolete, visited |-> Len(order)]
    ELSE LET cfg_entry == order[i].cfg_entry
             dev_entry == order[i].dev_entry
         IN IF OtherAccount(username, cfg_entry)
            THEN IF InApidata(dev_entry.serial_number, apidata)
                 THEN [conflict |-> cfg_entry.entry_id, obsolete |-> obsolete,
                       visited |-> i]
                 ELSE ScanFrom(order, i + 1, username, apidata, excluded, obsolete)
            ELSE IF IsObsolete(dev_entry, apidata, excluded)
                 THEN ScanFrom(order, i + 1, username, apidata, excluded,
                               DictPut(obsolete, dev_entry))
                 ELSE ScanFrom(order, i + 1, username, apidata, excluded, obsolete)

\* lines 355-405: conflict is the entry_id returned at line 398, 0 for none
Scan(cfg_entries, devs, username, apidata, excluded) ==
    ScanFrom(ScanOrder(cfg_entries, devs), 1, username, apidata,
             ExpandExcluded(excluded), <<>>)

\* every device of the serial of the id is removed
RemoveDeviceBySerial(devs, dev_id) ==
    SelectSeq(devs, LAMBDA d :
        \A i \in 1..Len(devs) :
            devs[i].id = dev_id => devs[i].serial_number # d.serial_number)

\* dev_registry.async_remove_device(dev_id), line 413
RemoveDevice(devs, dev_id) == SelectSeq(devs, LAMBDA d : d.id # dev_id)

RECURSIVE RemoveAll(_, _)
\* lines 407-419: the removal loop run to its end
RemoveAll(devs, obsolete) ==
    IF obsolete = <<>> THEN devs
    ELSE RemoveAll(RemoveDevice(devs, Head(obsolete).id), Tail(obsolete))

\* the removal loop is run whatever the scan has found
ToRemoveDespiteConflict(s) == s.obsolete

\* what the removal loop gets: the return of line 398 leaves the routine
\* before the loop, and with it the devices marked so far
ToRemove(s) == IF s.conflict # 0 THEN <<>> ELSE s.obsolete

\* the whole routine: the value returned and the registry it leaves
CheckAndRemoveDevices(cfg_entries, devs, username, apidata, excluded) ==
    LET s == Scan(cfg_entries, devs, username, apidata, excluded)
    IN [conflict |-> s.conflict, devices |-> RemoveAll(devs, ToRemove(s))]

(***************************************************************************)
(* Values of the wizard.                                                   *)
(***************************************************************************)
\* keys of the forms (homeassistant.const and .const)
CONF_USERNAME == "username"
ACCEPT_TERMS == "accept_terms"
TESTFOLDER == "testfolder"
BASE == "base"

\* exceptions: the three distinguished kinds of api_client, any other one,
\* and the AbortFlow raised by _abort_if_unique_id_configured
AuthenticationError == "AnkerSolixApiClientAuthenticationError"
CommunicationError == "AnkerSolixApiClientCommunicationError"
RetryExceededError == "AnkerSolixApiClientRetryExceededError"
OtherError == "Exception"
AbortFlow == "AbortFlow"

ApiFailures == {AuthenticationError, CommunicationError, RetryExceededError, OtherError}

Nicknames == {"", "Nick"}

TypeOf(serial) ==
    IF serial = "s1" THEN SOLARBANK ELSE IF serial = "s2" THEN INVERTER ELSE SYSTEM

\* the mapping client.api.sites | client.api.devices holding the keys S
ApiOf(S) == [s \in Serials |-> IF s \in S THEN TypeOf(s) ELSE ABSENT]

EmptyApi == ApiOf({})

\* what update_sites may fetch for an account in the wizard
FetchedApis == {ApiOf({}), ApiOf({"s1"}), ApiOf({"s1", "s2"})}

\* the validated input of the credential form (cfg_schema, lines 91-120)
UserInputs ==
    [username : Usernames, password : {"pw"}, country_code : {"DE"},
     accept_terms : BOOLEAN]

NoInput == [username |-> NONE, password |-> NONE, country_code |-> NONE,
            accept_terms |-> FALSE]

\* self._data = {} (line 65)
EmptyData == [username |-> NONE, password |-> NONE, country_code |-> NONE,
              accept_terms |-> FALSE, examplesfolder |-> NONE]

\* self.examplesfolder (lines 70-72)
ExamplesFolder == "examples"

\* lines 147-149: self._data = user_input plus the examples folder
DataOf(user_input) ==
    [username |-> user_input.username, password |-> user_input.password,
     country_code |-> user_input.country_code,
     accept_terms |-> user_input.accept_terms,
     examplesfolder |-> ExamplesFolder]

\* the validated input of the options form (get_options_schema, lines 259-344):
\* the first four fields have defaults and are always present, testmode and
\* testfolder may be missing
OptionBags ==
    {b \in [scan_interval : {60}, exclude : {{}},
            has_testmode : BOOLEAN, testmode : BOOLEAN,
            has_testfolder : BOOLEAN, testfolder : {"", "folder"}] :
        /\ (~b.has_testmode => ~b.testmode)
        /\ (~b.has_testfolder => b.testfolder = "")}

\* self._options = {} (line 66)
EmptyOptions == [scan_interval |-> 0, exclude |-> {}, has_testmode |-> FALSE,
                 testmode |-> FALSE, has_testfolder |-> FALSE, testfolder |-> "",
                 empty |-> TRUE]

Bag(b) == [scan_interval |-> b.scan_interval, exclude |-> b.exclude,
           has_testmode |-> b.has_testmode, testmode |-> b.testmode,
           has_testfolder |-> b.has_testfolder, testfolder |-> b.testfolder,
           empty |-> FALSE]

\* bool(user_options), lines 195 and 243
Truthy(bag) == ~bag.empty

\* TESTFOLDER in bag, in place of bag.get(TESTFOLDER)
OptionsValidKeyOnly(bag) ==
    bag.has_testfolder \/ ~(bag.has_testmode /\ bag.testmode)

\* bag.get(TESTFOLDER) or not bag.get(TESTMODE), lines 197 and 244
OptionsValid(bag) ==
    \/ (bag.has_testfolder /\ bag.testfolder # "")
    \/ ~(bag.has_testmode /\ bag.testmode)

\* self.client = None (line 67)
NoClient == [set |-> FALSE, user |-> NONE, nickname |-> NONE, api |-> EmptyApi]

NoPlaceholders ==
    [error_detail |-> <<>>, username |-> NONE, shared_account |-> NONE]

\* async_show_form(step_id, errors, description_placeholders)
ShowForm(step_id, errors, placeholders) ==
    [type |-> "form", step_id |-> step_id, errors |-> errors,
     placeholders |-> placeholders, title |-> NONE]

\* the result of async_create_entry
CreateEntryResult(title) ==
    [type |-> "create_entry", step_id |-> NONE, errors |-> {},
     placeholders |-> NoPlaceholders, title |-> title]

\* the clause of the retry error behind that of the communication error,
\* the one taken for a kind of the other
ErrorCategoryShadowed(exception) ==
    IF exception = AuthenticationError THEN "auth"
    ELSE IF exception \in {CommunicationError, RetryExceededError} THEN "connection"
    ELSE "unknown"

\* the except clauses of lines 162-179, in their order
ErrorCategory(exception) ==
    IF exception = AuthenticationError THEN "auth"
    ELSE IF exception = CommunicationError THEN "connection"
    ELSE IF exception = RetryExceededError THEN "exceeded"
    ELSE "unknown"

\* placeholders[ERROR_DETAIL], lines 165, 169, 173 and 177-179
ErrorDetail(exception) ==
    IF ErrorCategory(exception) = "unknown"
    THEN <<"Exception", exception>>
    ELSE <<exception>>

\* lines 162-186: the form shown after an exception of the try block
ErrorForm(exception) ==
    ShowForm("user", {<<BASE, ErrorCategory(exception)>>},
             [NoPlaceholders EXCEPT !.error_detail = ErrorDetail(exception)])

\* async_set_unique_id returns the entry that has the unique id, if any
EntryWithUniqueId(cfg_entries, unique_id) ==
    {i \in 1..Len(cfg_entries) : cfg_entries[i].unique_id = unique_id}

\* lines 199-201: the title of the new entry
EntryTitle(client, data) ==
    IF client.set THEN client.nickname ELSE data.username

InitFlow ==
    [pc |-> "form_user", unique_id |-> NONE, user_input |-> NoInput,
     data |-> EmptyData, options |-> EmptyOptions, client |-> NoClient,
     result |-> ShowForm("user", {}, NoPlaceholders), entry_id |-> 0,
     did |-> {}, raised |-> NONE, matched |-> 0, conflict |-> 0,
     seen |-> {}]

InitEditor ==
    [count |-> 0, entry_id |-> 0, type |-> NONE, errors |-> {},
     user_input |-> EmptyOptions, before |-> <<>>]

IdleCall ==
    [pc |-> "idle", username |-> NONE, apidata |-> EmptyApi, excluded |-> {},
     conflict |-> 0, visited |-> 0, obsolete |-> <<>>, removed |-> <<>>,
     devices0 |-> <<>>, expanded |-> {}, marked |-> <<>>, first |-> <<>>,
     run |-> 0, prev |-> "none"]

Init ==
    /\ entries = <<>>
    /\ devices = <<>>
    /\ devCtr = 0
    /\ flow = [f \in Flows |-> InitFlow]
    /\ editor = InitEditor
    /\ subs = 0
    /\ rc = IdleCall

(***************************************************************************)
(* AnkerSolixFlowHandler.async_step_user, lines 84-186.  One submission    *)
(* runs from the form to the first await that suspends (authenticate,      *)
(* update_sites); each completion of an awaited call is a step of its own. *)
(***************************************************************************)
CanSubmit == subs < MaxSubmits

\* the terms check left out
TermsNotChecked(user_input) == TRUE

\* line 124: user_input.get(ACCEPT_TERMS, "")
TermsAccepted(user_input) == user_input.accept_terms

\* the value of the reconciliation ignored
ConflictIgnored(r) == FALSE

\* line 138: the value of async_check_and_remove_devices is an entry
ConflictFound(r) == r.conflict # 0

\* what a submission starts from: the marks of the one before are dropped
Submitted(f) ==
    [flow[f] EXCEPT !.did = {}, !.raised = NONE, !.matched = 0, !.conflict = 0]

\* lines 123-134: the terms check, the uniqueness check and, behind it, the
\* call of _authenticate_client.  _abort_if_unique_id_configured raises
\* AbortFlow inside the try block, where line 174 catches any Exception.
SubmitUser(f, user_input) ==
    /\ flow[f].pc = "form_user"
    /\ CanSubmit
    /\ LET unique_id == Lower(user_input.username)
           found == EntryWithUniqueId(entries, unique_id)
           base == [Submitted(f) EXCEPT !.user_input = user_input]
       IN flow' = [flow EXCEPT ![f] =
            IF ~TermsAccepted(user_input)
            THEN [base EXCEPT
                    !.result = ShowForm("user", {<<ACCEPT_TERMS, ACCEPT_TERMS>>},
                                        NoPlaceholders)]
            ELSE IF found # {}
            THEN [base EXCEPT
                    !.did = {"unique"},
                    !.unique_id = unique_id,
                    !.matched = CHOOSE i \in found : \A j \in found : i <= j,
                    !.raised = AbortFlow,
                    !.result = ErrorForm(AbortFlow)]
            ELSE [base EXCEPT
                    !.did = {"unique"},
                    !.unique_id = unique_id,
                    !.pc = "authenticating"]]
    /\ subs' = subs + 1
    /\ UNCHANGED <<entries, devices, devCtr, editor, rc>>

\* a client the handler holds already is kept
AuthenticatedClientOnce(client, user_input, nickname) ==
    IF client.set THEN client
    ELSE [set |-> TRUE, user |-> user_input.username, nickname |-> nickname,
          api |-> EmptyApi]

\* lines 219-224: a new client made of the submitted credentials
AuthenticatedClient(client, user_input, nickname) ==
    [set |-> TRUE, user |-> user_input.username, nickname |-> nickname,
     api |-> EmptyApi]

\* lines 134 and 215-224: client.authenticate returns, self.client is set.
\* The cloud service authenticates no request that names no account.
AuthenticateOk(f, nickname) ==
    /\ flow[f].pc = "authenticating"
    /\ flow[f].user_input.username # ""    \* no account without a name
    /\ flow' = [flow EXCEPT ![f] =
            [@ EXCEPT !.did = @ \cup {"auth"},
                      !.client = AuthenticatedClient(flow[f].client,
                                                     flow[f].user_input, nickname),
                      !.pc = "fetching"]]
    /\ UNCHANGED <<entries, devices, devCtr, editor, subs, rc>>

\* lines 134 and 162-186: client.authenticate raises
AuthenticateFail(f, exception) ==
    /\ flow[f].pc = "authenticating"
    /\ flow' = [flow EXCEPT ![f] =
            [@ EXCEPT !.did = @ \cup {"auth"},
                      !.raised = exception,
                      !.seen = @ \cup {BASE},
                      !.result = ErrorForm(exception),
                      !.pc = "form_user"]]
    /\ UNCHANGED <<entries, devices, devCtr, editor, subs, rc>>

\* lines 137-160: update_sites returns, then the reconciliation over the
\* fetched data with nothing excluded and, without a conflict, the first
\* call of async_step_user_options (lines 188-213 with user_options None)
FetchOk(f, apidata) ==
    /\ flow[f].pc = "fetching"
    /\ LET user_input == flow[f].user_input
           r == CheckAndRemoveDevices(entries, devices, user_input.username,
                                      apidata, {})
           base == [flow[f] EXCEPT !.did = @ \cup {"fetch", "reconcile"},
                                   !.conflict = r.conflict,
                                   !.client.api = apidata]
       IN /\ devices' = r.devices
          /\ flow' = [flow EXCEPT ![f] =
               IF ConflictFound(r)
               THEN [base EXCEPT
                       !.pc = "form_user",
                       !.result =
                          ShowForm("user", {<<CONF_USERNAME, "duplicate_devices">>},
                                   [NoPlaceholders EXCEPT
                                      !.username = user_input.username,
                                      !.shared_account =
                                         entries[r.conflict].title])]
               ELSE [base EXCEPT
                       !.pc = "form_options",
                       !.data = DataOf(user_input),
                       !.result = ShowForm("user_options", {}, NoPlaceholders)]]
    /\ UNCHANGED <<entries, devCtr, editor, subs, rc>>

\* lines 137 and 162-186: update_sites raises
FetchFail(f, exception) ==
    /\ flow[f].pc = "fetching"
    /\ flow' = [flow EXCEPT ![f] =
            [@ EXCEPT !.did = @ \cup {"fetch"},
                      !.raised = exception,
                      !.seen = @ \cup {BASE},
                      !.result = ErrorForm(exception),
                      !.pc = "form_user"]]
    /\ UNCHANGED <<entries, devices, devCtr, editor, subs, rc>>

\* hass.config_entries: the entry made from the result of async_create_entry;
\* its unique id is the one the flow set, fetched is what its account holds
NewEntry(cfg_entries, f, title) ==
    [entry_id |-> Len(cfg_entries) + 1, unique_id |-> flow[f].unique_id,
     title |-> title, data |-> flow[f].data, options |-> flow[f].options,
     fetched |-> flow[f].client.api, registered |-> FALSE]

\* an entry of the same unique id is replaced by the new one
PersistReplacing(cfg_entries, cfg_entry) ==
    IF EntryWithUniqueId(cfg_entries, cfg_entry.unique_id) = {}
    THEN Append(cfg_entries, cfg_entry)
    ELSE [i \in 1..Len(cfg_entries) |->
            IF cfg_entries[i].unique_id = cfg_entry.unique_id
            THEN [cfg_entry EXCEPT !.entry_id = i] ELSE cfg_entries[i]]

\* lines 198-204: the host adds the entry of the created result to its list
Persist(cfg_entries, cfg_entry) == Append(cfg_entries, cfg_entry)

\* AnkerSolixFlowHandler.async_step_user_options, lines 188-213
SubmitOptions(f, user_options) ==
    /\ flow[f].pc = "form_options"
    /\ CanSubmit
    /\ LET bag == Bag(user_options)
           base == Submitted(f)
       IN IF Truthy(bag) /\ OptionsValid(bag)
          THEN LET title == EntryTitle(flow[f].client, flow[f].data)
                   done == [base EXCEPT !.options = bag, !.pc = "created",
                                        !.entry_id = Len(entries) + 1,
                                        !.result = CreateEntryResult(title)]
               IN /\ flow' = [flow EXCEPT ![f] = done]
                  /\ entries' = Persist(entries,
                        [NewEntry(entries, f, title) EXCEPT !.options = bag])
          ELSE /\ flow' = [flow EXCEPT ![f] =
                    [base EXCEPT
                       !.options = IF Truthy(bag) THEN bag ELSE @,
                       !.seen = IF Truthy(bag) THEN @ \cup {TESTFOLDER} ELSE @,
                       !.result =
                          ShowForm("user_options",
                                   IF Truthy(bag)
                                   THEN {<<TESTFOLDER, "folder_invalid">>} ELSE {},
                                   NoPlaceholders)]]
               /\ UNCHANGED entries
    /\ subs' = subs + 1
    /\ UNCHANGED <<devices, devCtr, editor, rc>>

\* The user leaves the wizard while a form is shown.  The handler (lines
\* 57-224) has no step for it and no cleanup of its own: its object is
\* dropped, only the form it had shown last is remembered here.
Abandon(f) ==
    /\ flow[f].pc \in {"form_user", "form_options"}
    /\ flow' = [flow EXCEPT ![f] =
            [InitFlow EXCEPT !.pc = "abandoned",
                             !.result = ShowForm(flow[f].result.step_id, {},
                                                 NoPlaceholders)]]
    /\ UNCHANGED <<entries, devices, devCtr, editor, subs, rc>>

(***************************************************************************)
(* The plugin's runtime registers the devices of a new entry.              *)
(***************************************************************************)
SerialOrder == <<"s1", "s2", "s3">>

RECURSIVE Register(_, _, _, _)
Register(devs, ctr, cfg_entry, i) ==
    IF i > Len(SerialOrder) THEN [devices |-> devs, devCtr |-> ctr]
    ELSE IF InApidata(SerialOrder[i], cfg_entry.fetched)
         THEN Register(Append(devs, [id |-> ctr + 1,
                                     serial_number |-> SerialOrder[i],
                                     entry |-> cfg_entry.entry_id]),
                       ctr + 1, cfg_entry, i + 1)
         ELSE Register(devs, ctr, cfg_entry, i + 1)

SetupEntry(i) ==
    /\ i \in 1..Len(entries)
    /\ ~entries[i].registered
    /\ LET r == Register(devices, devCtr, entries[i], 1)
       IN /\ devices' = r.devices
          /\ devCtr' = r.devCtr
    /\ entries' = [entries EXCEPT ![i].registered = TRUE]
    /\ UNCHANGED <<flow, editor, subs, rc>>

(***************************************************************************)
(* AnkerSolixOptionsFlowHandler.async_step_init, lines 234-256.  The host  *)
(* stores the data of the created result as the options of the entry.      *)
(***************************************************************************)
\* the title of the created result is stored as well
StoreOptionsAndTitle(cfg_entries, i, bag) ==
    [cfg_entries EXCEPT ![i].options = bag, ![i].title = ""]

\* line 245: the host stores the data of the created result as the options
StoreOptions(cfg_entries, i, bag) == [cfg_entries EXCEPT ![i].options = bag]

EditOptions(i, user_input) ==
    /\ i \in 1..Len(entries)
    /\ editor.count < MaxEdits
    /\ LET bag == Bag(user_input)
       IN IF Truthy(bag) /\ OptionsValid(bag)
          THEN /\ entries' = StoreOptions(entries, i, bag)
               /\ editor' = [count |-> editor.count + 1, entry_id |-> i,
                             type |-> "create_entry", errors |-> {},
                             user_input |-> bag, before |-> entries]
          ELSE /\ UNCHANGED entries
               /\ editor' = [count |-> editor.count + 1, entry_id |-> i,
                             type |-> "form",
                             errors |-> IF Truthy(bag)
                                        THEN {<<TESTFOLDER, "folder_invalid">>}
                                        ELSE {},
                             user_input |-> bag, before |-> entries]
    /\ UNCHANGED <<devices, devCtr, flow, subs, rc>>

\* the option bags submitted where the wizard flows run side by side
SomeBags ==
    {b \in OptionBags : b.has_testmode = b.testmode /\ ~b.has_testfolder}

Next ==
    \/ \E f \in Flows, user_input \in UserInputs : SubmitUser(f, user_input)
    \/ \E f \in Flows, nickname \in Nicknames : AuthenticateOk(f, nickname)
    \/ \E f \in Flows, exception \in ApiFailures : AuthenticateFail(f, exception)
    \/ \E f \in Flows, apidata \in FetchedApis : FetchOk(f, apidata)
    \/ \E f \in Flows, exception \in ApiFailures : FetchFail(f, exception)
    \/ \E f \in Flows, user_options \in SomeBags : SubmitOptions(f, user_options)
    \/ \E f \in Flows : Abandon(f)
    \/ \E i \in 1..Len(entries) : SetupEntry(i)

Spec == Init /\ [][Next]_vars

(***************************************************************************)
(* One wizard flow and the options editor, with every option bag.          *)
(***************************************************************************)
NextOptions ==
    \/ \E user_input \in UserInputs : SubmitUser("f1", user_input)
    \/ \E nickname \in Nicknames : AuthenticateOk("f1", nickname)
    \/ \E exception \in ApiFailures : AuthenticateFail("f1", exception)
    \/ \E apidata \in FetchedApis : FetchOk("f1", apidata)
    \/ \E exception \in ApiFailures : FetchFail("f1", exception)
    \/ \E user_options \in OptionBags : SubmitOptions("f1", user_options)
    \/ \E i \in 1..Len(entries) : SetupEntry(i)
    \/ \E i \in 1..Len(entries), user_input \in OptionBags : EditOptions(i, user_input)

SpecOptions == Init /\ [][NextOptions]_vars

(***************************************************************************)
(* async_check_and_remove_devices called on its own, lines 347-420: the    *)
(* scan, then the removals one device at a time.  The entry list, the      *)
(* registry and the arguments are drawn from bounded sets.                 *)
(***************************************************************************)
UniqueIds == {"a", "b"}

CallUsernames == {"", "A", "b"}

CallApis == {ApiOf(S) : S \in SUBSET Serials}

CallExcluded == {{}, {solarbank_energy}, {device_auto_upgrade}}

\* an entry of another origin, known by its unique id alone
EntryOf(entry_id, unique_id) ==
    [entry_id |-> entry_id, unique_id |-> unique_id, title |-> unique_id,
     data |-> EmptyData, options |-> EmptyOptions, fetched |-> EmptyApi,
     registered |-> TRUE]

EntryLists ==
    UNION {{[i \in 1..n |-> EntryOf(i, u[i])] : u \in [1..n -> UniqueIds]} :
           n \in 0..MaxEntries}

\* registries of n devices with ids 1..n over the entries 1..m
Registries(m) ==
    UNION {{[i \in 1..n |-> [id |-> i, serial_number |-> d[i][1], entry |-> d[i][2]]] :
            d \in [1..n -> Serials \X (1..m)]} : n \in 0..MaxDevs}

InitCall ==
    /\ entries \in EntryLists
    /\ devices \in Registries(Len(entries))
    /\ devCtr = Len(devices)
    /\ flow = [f \in Flows |-> InitFlow]
    /\ editor = InitEditor
    /\ subs = 0
    /\ \E username \in CallUsernames, apidata \in CallApis, excluded \in CallExcluded :
          rc = [IdleCall EXCEPT !.pc = "call", !.username = username,
                                !.apidata = apidata, !.excluded = excluded,
                                !.devices0 = devices, !.first = devices,
                                !.run = 1]

\* lines 355-405, and the return of line 398
CallScan ==
    /\ rc.pc = "call"
    /\ LET s == Scan(entries, devices, rc.username, rc.apidata, rc.excluded)
       IN rc' = [rc EXCEPT
                   !.pc = IF s.conflict # 0 /\ ToRemove(s) = <<>>
                          THEN "done" ELSE "remove",
                   !.conflict = s.conflict, !.visited = s.visited,
                   !.marked = s.obsolete, !.obsolete = ToRemove(s)]
    /\ UNCHANGED <<entries, devices, devCtr, flow, editor, subs>>

\* lines 409-419: one round of the removal loop
CallRemove ==
    /\ rc.pc = "remove"
    /\ rc.obsolete # <<>>
    /\ devices' = RemoveDevice(devices, Head(rc.obsolete).id)
    /\ rc' = [rc EXCEPT !.obsolete = Tail(@),
                        !.removed = Append(@, Head(rc.obsolete).id)]
    /\ UNCHANGED <<entries, devCtr, flow, editor, subs>>

\* line 420
CallReturn ==
    /\ rc.pc = "remove"
    /\ rc.obsolete = <<>>
    /\ rc' = [rc EXCEPT !.pc = "done"]
    /\ UNCHANGED <<entries, devices, devCtr, flow, editor, subs>>

NextCall == CallScan \/ CallRemove \/ CallReturn

SpecCall == InitCall /\ [][NextCall]_vars

(***************************************************************************)
(* The stand-alone call repeated with the same arguments, after it has     *)
(* returned or after it was interrupted between two removals (lines        *)
(* 409-419 keep nothing across calls: obsolete_user_devs is a local).      *)
(* The entry list has one entry per account, the registry no device twice  *)
(* under one entry.                                                        *)
(***************************************************************************)
\* the arguments of the repeated call: no username or one of another
\* spelling than the unique ids, nothing excluded or the auto-upgrade tag
RerunUsernames == {"", "A"}

RerunExcluded == {{}, {device_auto_upgrade}}

AccountLists ==
    {<<>>} \cup {<<EntryOf(1, u)>> : u \in UniqueIds}
           \cup {<<EntryOf(1, p[1]), EntryOf(2, p[2])>> :
                    p \in {q \in UniqueIds \X UniqueIds : q[1] # q[2]}}

DistinctRegistries(m) ==
    {r \in Registries(m) :
        \A i, j \in 1..Len(r) :
            (r[i].serial_number = r[j].serial_number /\ r[i].entry = r[j].entry)
                => i = j}

InitRerun ==
    /\ entries \in AccountLists
    /\ devices \in DistinctRegistries(Len(entries))
    /\ devCtr = Len(devices)
    /\ flow = [f \in Flows |-> InitFlow]
    /\ editor = InitEditor
    /\ subs = 0
    /\ \E username \in RerunUsernames, apidata \in CallApis, excluded \in RerunExcluded :
          rc = [IdleCall EXCEPT !.pc = "call", !.username = username,
                                !.apidata = apidata, !.excluded = excluded,
                                !.devices0 = devices, !.first = devices,
                                !.run = 1]

\* the routine is cut off between two rounds of the loop of lines 409-419
CallInterrupt ==
    /\ rc.pc = "remove"
    /\ rc.removed # <<>>
    /\ rc.obsolete # <<>>
    /\ rc' = [rc EXCEPT !.pc = "interrupted", !.obsolete = <<>>,
                        !.removed = <<>>, !.marked = <<>>, !.visited = 0]
    /\ UNCHANGED <<entries, devices, devCtr, flow, editor, subs>>

\* line 355: the routine is called again with the same arguments
CallAgain ==
    /\ rc.pc \in {"interrupted", "done"}
    /\ rc.run < MaxRuns
    /\ rc' = [rc EXCEPT !.pc = "call", !.run = @ + 1,
                        !.prev = IF rc.pc = "done" THEN "returned"
                                 ELSE "interrupted",
                        !.conflict = 0, !.visited = 0, !.marked = <<>>,
                        !.obsolete = <<>>, !.removed = <<>>,
                        !.devices0 = devices]
    /\ UNCHANGED <<entries, devices, devCtr, flow, editor, subs>>

NextRerun ==
    CallScan \/ CallRemove \/ CallReturn \/ CallInterrupt \/ CallAgain

SpecRerun == InitRerun /\ [][NextRerun]_vars

(***************************************************************************)
(* The expansion of the exclusion set on its own, lines 357-384, one rule  *)
(* at a time, for every set of the tags and types the rules mention.       *)
(***************************************************************************)
InitExpand ==
    /\ entries = <<>>
    /\ devices = <<>>
    /\ devCtr = 0
    /\ flow = [f \in Flows |-> InitFlow]
    /\ editor = InitEditor
    /\ subs = 0
    /\ \E excluded \in SUBSET Categories :
          rc = [IdleCall EXCEPT !.pc = "expand", !.excluded = excluded,
                                !.expanded = excluded]

\* line 357: a missing or empty set is left as it is
ExpandSkip ==
    /\ rc.pc = "expand"
    /\ rc.excluded = {}
    /\ rc' = [rc EXCEPT !.pc = "expanded"]
    /\ UNCHANGED <<entries, devices, devCtr, flow, editor, subs>>

\* lines 359-366
RuleSystem ==
    /\ rc.pc = "expand"
    /\ rc.excluded # {}
    /\ rc' = [rc EXCEPT !.pc = "rule_solarbank",
                        !.expanded = ExpandSystem(rc.expanded)]
    /\ UNCHANGED <<entries, devices, devCtr, flow, editor, subs>>

\* lines 368-374
RuleSolarbank ==
    /\ rc.pc = "rule_solarbank"
    /\ rc' = [rc EXCEPT !.pc = "rule_devices",
                        !.expanded = ExpandSolarbank(rc.expanded)]
    /\ UNCHANGED <<entries, devices, devCtr, flow, editor, subs>>

\* lines 376-384
RuleDevices ==
    /\ rc.pc = "rule_devices"
    /\ rc' = [rc EXCEPT !.pc = "expanded",
                        !.expanded = ExpandDevices(rc.expanded)]
    /\ UNCHANGED <<entries, devices, devCtr, flow, editor, subs>>

NextExpand == ExpandSkip \/ RuleSystem \/ RuleSolarbank \/ RuleDevices

SpecExpand == InitExpand /\ [][NextExpand]_vars

(***************************************************************************)
(* Properties.                                                             *)
(***************************************************************************)
Created == {f \in Flows : flow[f].pc = "created"}

\* C1: a submission with the terms accepted and a username whose lower-cased
\* form is the unique id of an existing entry aborts the flow: the outcome is
\* an abort, not a form, authentication is not attempted and the flow makes
\* no entry.
C1_AbortsWhenConfigured ==
    \A f \in Flows :
        flow[f].matched # 0 =>
            /\ flow[f].result.type = "abort"
            /\ "auth" \notin flow[f].did
            /\ flow[f].entry_id = 0

\* C2: in every reachable state at most one entry exists per lower-cased
\* username, however the steps of the flows interleave.
C2_OneEntryPerUsername ==
    \A i, j \in 1..Len(entries) :
        entries[i].unique_id = entries[j].unique_id => i = j

\* C3: no serial number is registered under two different entries.
C3_SerialUnderOneEntry ==
    \A i, j \in 1..Len(devices) :
        devices[i].serial_number = devices[j].serial_number
            => devices[i].entry = devices[j].entry

\* the entry that owns a device of the registry the call started from
OwnerOf(dev_entry) ==
    CHOOSE cfg_entry \in {entries[i] : i \in 1..Len(entries)} :
        cfg_entry.entry_id = dev_entry.entry

\* the device is registered under an entry whose unique id differs from the
\* candidate's lower-cased username, and its serial is a key of the data
SharedWithOther(cfg_entry, dev_entry) ==
    /\ cfg_entry.unique_id # Lower(rc.username)
    /\ InApidata(dev_entry.serial_number, rc.apidata)

\* C4: the call returns a conflicting entry if and only if some device under
\* an entry of another account has a serial that is a key of the fetched
\* data; the entry returned owns the first such device in scan order, and
\* the scan stops at that device.
C4_ConflictIffShared ==
    rc.pc \in {"remove", "done"} =>
        LET order == ScanOrder(entries, rc.devices0)
            hits == {i \in 1..Len(order) :
                        SharedWithOther(order[i].cfg_entry, order[i].dev_entry)}
            first == CHOOSE i \in hits : \A j \in hits : i <= j
        IN /\ (rc.conflict # 0) <=> (hits # {})
           /\ hits # {} =>
                /\ rc.conflict = order[first].cfg_entry.entry_id
                /\ rc.visited = first

\* a device of the candidate's own account that is absent or excluded
ToPrune(dev_entry) ==
    /\ OwnerOf(dev_entry).unique_id = Lower(rc.username)
    /\ \/ ~InApidata(dev_entry.serial_number, rc.apidata)
       \/ rc.apidata[dev_entry.serial_number] \in ExpandExcluded(rc.excluded)

\* C5: without a cross-account conflict the call returns nothing and removes
\* exactly the same-account devices that are absent from the fetched data or
\* of an excluded type; every other device stays registered.
C5_PrunesExactlyObsolete ==
    (/\ rc.pc = "done"
     /\ \A i \in 1..Len(rc.devices0) :
           ~SharedWithOther(OwnerOf(rc.devices0[i]), rc.devices0[i]))
    => /\ rc.conflict = 0
       /\ devices = SelectSeq(rc.devices0, LAMBDA d : ~ToPrune(d))

\* C8: the entry the wizard persists has the account's display name as its
\* title, or the submitted username when there is no display name; its data
\* is the submitted credential data plus the example folder, its options
\* are the submitted bag.
C8_TitleDataOptions ==
    \A f \in Created :
        LET cfg_entry == entries[flow[f].entry_id]
            nickname == flow[f].client.nickname
        IN /\ cfg_entry.title =
                 IF flow[f].client.set /\ nickname \notin {"", NONE}
                 THEN nickname ELSE flow[f].user_input.username
           /\ cfg_entry.data = DataOf(flow[f].user_input)
           /\ cfg_entry.options = flow[f].options

\* C6: a submission of the credential form with the terms unchecked shows
\* the credential form again with an error on the terms field, and performs
\* neither the uniqueness check, the authentication, the fetch nor the
\* reconciliation.
C6_TermsUnchecked ==
    \A f \in Flows :
        (flow[f].user_input # NoInput /\ ~flow[f].user_input.accept_terms) =>
            /\ flow[f].pc = "form_user"
            /\ flow[f].result =
                  ShowForm("user", {<<ACCEPT_TERMS, ACCEPT_TERMS>>}, NoPlaceholders)
            /\ flow[f].did = {}
            /\ flow[f].raised = NONE

C6_Witness ==
    \E f \in Flows :
        /\ flow[f].user_input \in UserInputs
        /\ ~flow[f].user_input.accept_terms
        /\ flow[f].user_input.username = "a"
        /\ <<ACCEPT_TERMS, ACCEPT_TERMS>> \in flow[f].result.errors

\* test_mode is true and test_folder is empty or missing
TestFolderMissing(bag) ==
    /\ bag.has_testmode /\ bag.testmode
    /\ (~bag.has_testfolder \/ bag.testfolder = "")

\* C7: in the options step of the wizard and in the options editor, a
\* submission with test_mode true and no test_folder shows the form again
\* with an error on test_folder and persists nothing; every other
\* submission persists.
C7_TestFolderRequired ==
    /\ Len(entries) = Cardinality(Created)
    /\ \A f \in Flows :
          (flow[f].pc \in {"form_options", "created"} /\ ~flow[f].options.empty) =>
             IF TestFolderMissing(flow[f].options)
             THEN /\ flow[f].pc = "form_options"
                  /\ flow[f].entry_id = 0
                  /\ flow[f].result =
                        ShowForm("user_options", {<<TESTFOLDER, "folder_invalid">>},
                                 NoPlaceholders)
             ELSE /\ flow[f].pc = "created"
                  /\ flow[f].result.type = "create_entry"
                  /\ flow[f].entry_id \in 1..Len(entries)
    /\ editor.count > 0 =>
          IF TestFolderMissing(editor.user_input)
          THEN /\ editor.type = "form"
               /\ editor.errors = {<<TESTFOLDER, "folder_invalid">>}
               /\ \A i \in 1..Len(editor.before) :
                     entries[i].options = editor.before[i].options
          ELSE /\ editor.type = "create_entry"
               /\ entries[editor.entry_id].options = editor.user_input

C7_Witness ==
    /\ editor.type = "form"
    /\ TestFolderMissing(editor.user_input)
    /\ \E f \in Created : TESTFOLDER \in flow[f].seen

\* C9: a failure of the authentication or of the fetch is not fatal: the
\* three distinguished kinds and any other one give four different form
\* errors, each with a detail in the placeholders; the flow is back on the
\* credential form, no entry is made, and a later submission can succeed.
C9_FailuresReturnToForm ==
    /\ Len(entries) = Cardinality(Created)
    /\ \A f \in Flows :
          flow[f].raised \in ApiFailures =>
             /\ flow[f].pc = "form_user"
             /\ flow[f].entry_id = 0
             /\ flow[f].result.type = "form"
             /\ flow[f].result.step_id = "user"
             /\ \E category \in {"auth", "connection", "exceeded", "unknown"} :
                   flow[f].result.errors = {<<BASE, category>>}
             /\ flow[f].result.placeholders.error_detail # <<>>
    /\ \A f, g \in Flows :
          (/\ flow[f].raised \in ApiFailures
           /\ flow[g].raised \in ApiFailures
           /\ flow[f].raised # flow[g].raised)
          => flow[f].result.errors # flow[g].result.errors

C9_Witness ==
    \E f \in Created : BASE \in flow[f].seen

\* C10: when the reconciliation returns a conflicting entry the flow stays
\* on the credential form, with an error on the username field and the
\* title of that entry in the placeholders, and makes no entry; when it
\* returns nothing the flow is on the options step.
C10_ConflictStaysOnForm ==
    \A f \in Flows :
        "reconcile" \in flow[f].did =>
            IF flow[f].conflict # 0
            THEN /\ flow[f].pc = "form_user"
                 /\ flow[f].entry_id = 0
                 /\ flow[f].result.type = "form"
                 /\ flow[f].result.step_id = "user"
                 /\ flow[f].result.errors = {<<CONF_USERNAME, "duplicate_devices">>}
                 /\ flow[f].result.placeholders.shared_account =
                       entries[flow[f].conflict].title
            ELSE /\ flow[f].pc = "form_options"
                 /\ flow[f].result = ShowForm("user_options", {}, NoPlaceholders)

C10_Witness ==
    \E f \in Flows :
        /\ "reconcile" \in flow[f].did
        /\ flow[f].conflict # 0
        /\ flow[f].result.placeholders.shared_account # NONE

\* what the host stores of an entry
Stored(cfg_entry) ==
    [entry_id |-> cfg_entry.entry_id, unique_id |-> cfg_entry.unique_id,
     title |-> cfg_entry.title, data |-> cfg_entry.data,
     options |-> cfg_entry.options]

StoredEntries == [i \in 1..Len(entries) |-> Stored(entries[i])]

\* C11: the entries change only at the persist transition of the options
\* step, which adds one entry and leaves the others as they are; a flow
\* abandoned before that transition leaves no entry behind.
C11_EntriesOnlyAtPersist ==
    /\ [](Len(entries) = Cardinality(Created))
    /\ [][StoredEntries' # StoredEntries =>
            /\ \E f \in Flows :
                  /\ flow[f].pc = "form_options"
                  /\ flow'[f].pc = "created"
            /\ Len(StoredEntries') = Len(StoredEntries) + 1
            /\ SubSeq(StoredEntries', 1, Len(StoredEntries)) = StoredEntries]_vars

C11_Witness ==
    \E f \in Flows :
        /\ flow[f].pc = "abandoned"
        /\ flow[f].result.step_id = "user_options"
        /\ \E g \in Created : entries[flow[g].entry_id].unique_id = "a"

\* C12: the expansion of a set that holds one of the four solarbank
\* subcategory tags holds the solarbank device type.
C12_SolarbankTagsGiveType ==
    (rc.pc = "expanded" /\ SolarbankSubcategories \cap rc.excluded # {}) =>
        /\ SOLARBANK \in rc.expanded
        /\ rc.excluded \subseteq rc.expanded

C12_Witness ==
    /\ rc.pc = "expanded"
    /\ rc.excluded = {solarbank_solar_info}
    /\ SOLARBANK \in rc.expanded

\* C13: the expansion of a set that holds the auto-upgrade tag holds the
\* solarbank, inverter, PPS and powerpanel device types.
C13_AutoUpgradeGivesTypes ==
    (rc.pc = "expanded" /\ device_auto_upgrade \in rc.excluded) =>
        {SOLARBANK, INVERTER, PPS, POWERPANEL} \subseteq rc.expanded

C13_Witness ==
    /\ rc.pc = "expanded"
    /\ rc.excluded = {device_auto_upgrade}
    /\ {SOLARBANK, INVERTER, PPS, POWERPANEL} \subseteq rc.expanded

\* C14: a step of the options editor removes no device and changes no
\* entry's title, data or unique id, and no other entry's options; an
\* accepted submission makes the submitted bag the options of its entry, a
\* rejected one leaves the entries as they are.
C14_EditorOnlyOptions ==
    [][editor'.count # editor.count =>
          /\ devices' = devices
          /\ Len(entries') = Len(entries)
          /\ \A i \in 1..Len(entries) :
                /\ entries'[i].title = entries[i].title
                /\ entries'[i].data = entries[i].data
                /\ entries'[i].unique_id = entries[i].unique_id
                /\ i # editor'.entry_id =>
                      entries'[i].options = entries[i].options
          /\ editor'.type = "create_entry" =>
                entries'[editor'.entry_id].options = editor'.user_input
          /\ editor'.type = "form" => entries' = entries]_vars

C14_Witness ==
    /\ editor.type = "create_entry"
    /\ devices # <<>>
    /\ entries[editor.entry_id].title = "Nick"
    /\ entries[editor.entry_id].options = editor.user_input
    /\ editor.before[editor.entry_id].options # editor.user_input

\* the ids of the devices the scan of the registry the run started from
\* marks, in the order the scan meets them
MarkedIds ==
    LET order == ScanOrder(entries, rc.devices0)
        hit == SelectSeq(order, LAMBDA p :
                  /\ ~OtherAccount(rc.username, p.cfg_entry)
                  /\ IsObsolete(p.dev_entry, rc.apidata,
                                ExpandExcluded(rc.excluded)))
    IN [i \in 1..Len(hit) |-> hit[i].dev_entry.id]

\* C15: no device is removed before the scan has gone over all entries and
\* devices; the marked devices are then removed one at a time in the order
\* the scan met them.
C15_ScanThenRemoveInOrder ==
    /\ rc.pc = "call" => devices = rc.devices0
    /\ (rc.pc \in {"remove", "done"} /\ rc.conflict = 0) =>
          /\ rc.removed \o [i \in 1..Len(rc.obsolete) |-> rc.obsolete[i].id]
                = MarkedIds
          /\ devices = SelectSeq(rc.devices0, LAMBDA d :
                          \A i \in 1..Len(rc.removed) : rc.removed[i] # d.id)
    /\ rc.removed # <<>> =>
          rc.visited = Len(ScanOrder(entries, rc.devices0))

C15_Witness ==
    /\ rc.pc = "remove"
    /\ Len(rc.removed) = 1
    /\ Len(rc.obsolete) = 2
    /\ Len(devices) = 2

\* the device is a key of the data and its type is not excluded
Required(dev_entry) ==
    /\ InApidata(dev_entry.serial_number, rc.apidata)
    /\ rc.apidata[dev_entry.serial_number] \notin ExpandExcluded(rc.excluded)

\* the registry one complete run leaves of the registry of the first run
OneRunFinal ==
    LET s == Scan(entries, rc.first, rc.username, rc.apidata, rc.excluded)
    IN IF s.conflict # 0 THEN rc.first
       ELSE SelectSeq(rc.first, LAMBDA d :
               \A i \in 1..Len(s.obsolete) : s.obsolete[i].id # d.id)

\* C16: however often the call is repeated with the same arguments, also
\* after an interrupted run, no device that is still required is removed;
\* every run that returns leaves the registry one complete run leaves; a
\* run that follows a returned run removes nothing.
C16_RepeatedRunSameFinal ==
    LET final == OneRunFinal
    IN /\ SelectSeq(devices, Required) = SelectSeq(rc.first, Required)
       /\ \A i \in 1..Len(final) :
             \E j \in 1..Len(devices) : devices[j] = final[i]
       /\ rc.pc = "done" => devices = final
       /\ rc.prev = "returned" =>
             /\ rc.obsolete = <<>>
             /\ rc.removed = <<>>
             /\ devices = rc.devices0

C16_Witness ==
    /\ rc.run = 2
    /\ rc.prev = "interrupted"
    /\ rc.pc = "done"
    /\ rc.devices0 # rc.first
    /\ rc.removed # <<>>
    /\ devices = OneRunFinal
    /\ rc.username # ""

\* a third run, on the registry a returned run has left
C16_WitnessThirdRun ==
    /\ rc.run = 3
    /\ rc.pc = "done"
    /\ rc.prev = "returned"
    /\ Len(rc.first) = 3
    /\ Len(devices) = 1

\* C17: when the call returns a conflicting entry the registry is as it was
\* when the call began, the devices the scan had marked before the
\* conflict included.
C17_ConflictLeavesRegistry ==
    (rc.pc = "done" /\ rc.conflict # 0) =>
        /\ devices = rc.devices0
        /\ rc.removed = <<>>

C17_Witness ==
    /\ rc.pc = "done"
    /\ rc.conflict # 0
    /\ rc.marked # <<>>
    /\ \A i \in 1..Len(rc.marked) :
          \E j \in 1..Len(devices) : devices[j].id = rc.marked[i].id

\* C18: whatever the arguments, the empty username included, every device
\* the call removes is registered under an entry whose unique id is the
\* candidate's lower-cased username.
C18_RemovesOnlyOwnAccount ==
    \A i \in 1..Len(rc.devices0) :
        (\A j \in 1..Len(devices) : devices[j].id # rc.devices0[i].id) =>
            OwnerOf(rc.devices0[i]).unique_id = Lower(rc.username)

\* C19: the expanded set is closed under the rules: with the price tag or
\* the solarbank, inverter, PPS or powerpanel type in it, the system type is
\* in it; expanding the expanded set changes nothing.
C19_ExpansionClosed ==
    rc.pc = "expanded" =>
        /\ SystemSubcategories \cap rc.expanded # {} => SYSTEM \in rc.expanded
        /\ ExpandExcluded(rc.expanded) = rc.expanded

\* the flow has just passed every check of the credential step
PassedAllChecks(fl) ==
    /\ fl.user_input.accept_terms
    /\ fl.did = {"unique", "auth", "fetch", "reconcile"}
    /\ fl.matched = 0
    /\ fl.raised = NONE
    /\ fl.conflict = 0
    /\ fl.client.set
    /\ fl.client.user = fl.user_input.username
    /\ fl.unique_id = Lower(fl.user_input.username)
    /\ fl.data = DataOf(fl.user_input)

\* C20: whatever was submitted before in the flow, the flow makes its entry
\* only from the options form, and reaches the options form only in a step
\* that ends a credential submission which passed the terms check and the
\* uniqueness check, authenticated, fetched and reconciled without a
\* conflict; the entry stores the credentials of that submission, its title
\* is the display name of the client authenticated with them, and the unique
\* id of the flow and of the entry is the lower-cased stored username.
C20_PersistAfterChecks ==
    /\ [](\A f \in Created :
            LET cfg_entry == entries[flow[f].entry_id]
            IN /\ cfg_entry.data = DataOf(flow[f].user_input)
               /\ flow[f].client.set
               /\ flow[f].client.user = cfg_entry.data.username
               /\ cfg_entry.title = flow[f].client.nickname
               /\ flow[f].unique_id = Lower(cfg_entry.data.username)
               /\ cfg_entry.unique_id = flow[f].unique_id)
    /\ [][\A f \in Flows :
            /\ (flow'[f].pc = "created" /\ flow[f].pc # "created") =>
                  /\ flow[f].pc = "form_options"
                  /\ flow'[f].user_input = flow[f].user_input
                  /\ flow'[f].client = flow[f].client
                  /\ flow'[f].data = flow[f].data
                  /\ flow'[f].unique_id = flow[f].unique_id
            /\ (flow'[f].pc = "form_options" /\ flow[f].pc # "form_options") =>
                  /\ flow[f].pc = "fetching"
                  /\ PassedAllChecks(flow'[f])
            /\ (flow'[f].pc = "form_options" /\ flow[f].pc = "form_options") =>
                  /\ flow'[f].user_input = flow[f].user_input
                  /\ flow'[f].client = flow[f].client
                  /\ flow'[f].data = flow[f].data
                  /\ flow'[f].unique_id = flow[f].unique_id]_vars

C20_Witness ==
    \E f \in Created :
        /\ BASE \in flow[f].seen
        /\ flow[f].user_input.username = "A"
        /\ entries[flow[f].entry_id].unique_id = "a"
        /\ entries[flow[f].entry_id].title = "Nick"

====
